---- MODULE Spec2Model ----
(***************************************************************************)
(* Site percolation on an n-by-n grid: the weighted quick-union grid       *)
(* (Percolation.hpp), the quick-find grid (PercolationQuickFind.hpp) and    *)
(* the Monte Carlo threshold estimator (PercolationStat.hpp).              *)
(***************************************************************************)
EXTENDS Integers, Sequences, FiniteSets, TLC

\* Largest grid side explored.
MaxN == 3

\* Largest number of sites opened on one grid.
MaxOpens == 4

\* Largest grid side of the column scenario.
MaxColumnN == 6

\* Largest grid side, and largest number of open sites, of the grids whose
\* forests are given to unionSites pair by pair.
MaxForestN == 3

MaxForestOpens == 3

\* Largest grid side and largest number of trials given to the estimator.
MaxStatsN == 2

MaxTrials == 2

MaxFairN == 2

MaxFairTrials == 1

VARIABLES
    n,                \* side length shared by the two grids
    grid,             \* Percolation::grid, site index -> BOOLEAN
    parent,           \* Percolation::parent, element -> element
    size,             \* Percolation::size, element -> count
    openSitesCount,   \* Percolation::openSitesCount
    raised,           \* what() of the exception the last Percolation call threw, or "none"
    qf_grid,          \* PercolationQuickFind::grid
    id,               \* PercolationQuickFind::id
    qf_openSitesCount,\* PercolationQuickFind::openSitesCount
    qf_raised,        \* exception of the last PercolationQuickFind call, or "none"
    trials,           \* PercolationStats::trials, the constructor's argument
    t,                \* trial counter of the constructor's for loop
    thresholds,       \* PercolationStats::thresholds, each value as <<numerator, denominator>>
    trialRow,         \* `row` of the while body, -1 outside a draw
    trialCol,         \* `col` of the while body, -1 outside a draw
    sampleMean,       \* PercolationStats::sampleMean
    sampleStddev,     \* PercolationStats::sampleStddev
    stats_raised,     \* exception thrown by the PercolationStats constructor, or "none"
    pc                \* position inside the PercolationStats constructor

wquVars == <<grid, parent, size, openSitesCount, raised>>
qfVars == <<qf_grid, id, qf_openSitesCount, qf_raised>>
statVars == <<trials, t, thresholds, trialRow, trialCol,
              sampleMean, sampleStddev, stats_raised, pc>>
vars == <<n, grid, parent, size, openSitesCount, raised,
          qf_grid, id, qf_openSitesCount, qf_raised,
          trials, t, thresholds, trialRow, trialCol,
          sampleMean, sampleStddev, stats_raised, pc>>

NoException == "none"
OutOfBounds == "Index out of bounds"
BadGridSize == "Grid size must be positive"
BadStatsN == "Grid size n must be positive"
BadTrials == "Number of trials must be positive"

-----------------------------------------------------------------------------
\* Index helpers shared by both classes (same code in both headers).

getIndex(row, col) == row * n + col

virtualTop == n * n

virtualBottom == n * n + 1

Sites == 0 .. (n * n - 1)

Elements == 0 .. (n * n + 1)

Rows == 0 .. (n - 1)

\* Row and column values a caller may pass: every valid one and one past each end.
Coords == -1 .. n

\* The (row, col) pairs the calls are explored with: every site, and one pair
\* just outside each of the four edges.
Calls == (Rows \X Rows) \cup {<<-1, 0>>, <<n, 0>>, <<0, -1>>, <<0, n>>}

validate(row, col) ==
    IF row < 0 \/ row >= n \/ col < 0 \/ col >= n THEN OutOfBounds ELSE NoException

-----------------------------------------------------------------------------
\* Weighted quick-union with path compression (Percolation.hpp).

\* find without path compression: the root is returned, no parent is rewritten.
RECURSIVE find_noCompression(_, _)
find_noCompression(par, x) ==
    IF par[x] # x THEN find_noCompression(par, par[x])
    ELSE [root |-> x, parent |-> par]

RECURSIVE find(_, _)
find(par, x) ==
    IF par[x] # x
    THEN LET r == find(par, par[x])
         IN  [root |-> r.root, parent |-> [r.parent EXCEPT ![x] = r.root]]
    ELSE [root |-> x, parent |-> par]

\* unionSites that always attaches y's root under x's root, whatever the sizes.
unionSites_unweighted(par, sz, x, y) ==
    LET fx == find(par, x)
        fy == find(fx.parent, y)
        rootX == fx.root
        rootY == fy.root
        p == fy.parent
    IN  IF rootX = rootY THEN [parent |-> p, size |-> sz]
        ELSE [parent |-> [p EXCEPT ![rootY] = rootX],
              size |-> [sz EXCEPT ![rootX] = sz[rootX] + sz[rootY]]]

\* unionSites without `if (rootX == rootY) return;`.
unionSites_noSameRootTest(par, sz, x, y) ==
    LET fx == find(par, x)
        fy == find(fx.parent, y)
        rootX == fx.root
        rootY == fy.root
        p == fy.parent
    IN  IF sz[rootX] < sz[rootY]
        THEN [parent |-> [p EXCEPT ![rootX] = rootY],
              size |-> [sz EXCEPT ![rootY] = sz[rootY] + sz[rootX]]]
        ELSE [parent |-> [p EXCEPT ![rootY] = rootX],
              size |-> [sz EXCEPT ![rootX] = sz[rootX] + sz[rootY]]]

\* unionSites with the size comparison inverted: the larger tree goes under the smaller.
unionSites_invertedWeight(par, sz, x, y) ==
    LET fx == find(par, x)
        fy == find(fx.parent, y)
        rootX == fx.root
        rootY == fy.root
        p == fy.parent
    IN  IF rootX = rootY THEN [parent |-> p, size |-> sz]
        ELSE IF sz[rootX] > sz[rootY]
             THEN [parent |-> [p EXCEPT ![rootX] = rootY],
                   size |-> [sz EXCEPT ![rootY] = sz[rootY] + sz[rootX]]]
             ELSE [parent |-> [p EXCEPT ![rootY] = rootX],
                   size |-> [sz EXCEPT ![rootX] = sz[rootX] + sz[rootY]]]

\* unionSites with the bug of re-parenting y itself, not y's root, under x's root.
unionSites_attachY(par, sz, x, y) ==
    LET fx == find(par, x)
        fy == find(fx.parent, y)
        rootX == fx.root
        rootY == fy.root
        p == fy.parent
    IN  IF rootX = rootY THEN [parent |-> p, size |-> sz]
        ELSE [parent |-> [p EXCEPT ![y] = rootX],
              size |-> [sz EXCEPT ![rootX] = sz[rootX] + sz[rootY]]]

unionSites(par, sz, x, y) ==
    LET fx == find(par, x)
        fy == find(fx.parent, y)
        rootX == fx.root
        rootY == fy.root
        p == fy.parent
    IN  IF rootX = rootY THEN [parent |-> p, size |-> sz]
        ELSE IF sz[rootX] < sz[rootY]
             THEN [parent |-> [p EXCEPT ![rootX] = rootY],
                   size |-> [sz EXCEPT ![rootY] = sz[rootY] + sz[rootX]]]
             ELSE [parent |-> [p EXCEPT ![rootY] = rootX],
                   size |-> [sz EXCEPT ![rootX] = sz[rootX] + sz[rootY]]]

connected(par, x, y) ==
    LET fx == find(par, x)
        fy == find(fx.parent, y)
    IN  [result |-> fx.root = fy.root, parent |-> fy.parent]

\* The constructor without its loop `parent[i] = i`: resize leaves every parent 0.
Percolation_noParentInit(k) ==
    [grid |-> [i \in 0 .. (k * k - 1) |-> FALSE],
     parent |-> [i \in 0 .. (k * k + 1) |-> 0],
     size |-> [i \in 0 .. (k * k + 1) |-> 1],
     openSitesCount |-> 0,
     exc |-> NoException]

\* The object after `Percolation perc(k)` for k > 0.
Percolation(k) ==
    [grid |-> [i \in 0 .. (k * k - 1) |-> FALSE],
     parent |-> [i \in 0 .. (k * k + 1) |-> i],
     size |-> [i \in 0 .. (k * k + 1) |-> 1],
     openSitesCount |-> 0,
     exc |-> NoException]

\* The object the member functions work on.
this == [grid |-> grid, parent |-> parent, size |-> size,
         openSitesCount |-> openSitesCount, exc |-> raised]

\* isOpen(row, col) as a call: the exception it throws and the value it returns.
isOpen(g, row, col) ==
    IF validate(row, col) # NoException
    THEN [exc |-> validate(row, col), value |-> FALSE]
    ELSE [exc |-> NoException, value |-> g[getIndex(row, col)]]

\* `unionSites(x, y);` as a statement of open.
openUnion(o, x, y) ==
    LET u == unionSites(o.parent, o.size, x, y)
    IN  [o EXCEPT !.parent = u.parent, !.size = u.size]

\* The neighbour statement without its bounds test: `if (isOpen(nrow, ncol)) ...`.
openNeighbor_noBoundsTest(o, index, inside, nrow, ncol) ==
    IF o.exc # NoException THEN o
    ELSE LET q == isOpen(o.grid, nrow, ncol)
         IN  IF q.exc # NoException THEN [o EXCEPT !.exc = q.exc]
             ELSE IF q.value THEN openUnion(o, index, getIndex(nrow, ncol))
             ELSE o

\* The neighbour statement that tests the neighbour but forgets the union.
openNeighbor_noUnion(o, index, inside, nrow, ncol) ==
    IF o.exc # NoException \/ ~inside THEN o
    ELSE LET q == isOpen(o.grid, nrow, ncol)
         IN  IF q.exc # NoException THEN [o EXCEPT !.exc = q.exc] ELSE o

\* `if (inside && isOpen(nrow, ncol)) unionSites(index, getIndex(nrow, ncol));`
openNeighbor(o, index, inside, nrow, ncol) ==
    IF o.exc # NoException \/ ~inside THEN o
    ELSE LET q == isOpen(o.grid, nrow, ncol)
         IN  IF q.exc # NoException THEN [o EXCEPT !.exc = q.exc]
             ELSE IF q.value THEN openUnion(o, index, getIndex(nrow, ncol))
             ELSE o

\* The top-row test counting rows from one: `if (row == 1)`.
openTop_rowOne(o, row, index) ==
    IF row = 1 THEN openUnion(o, index, virtualTop) ELSE o

\* `if (row == 0) unionSites(index, virtualTop);`
openTop(o, row, index) ==
    IF row = 0 THEN openUnion(o, index, virtualTop) ELSE o

\* The bottom-row statement with virtualTop written for index.
openBottom_joinsVirtualNodes(o, row, index) ==
    IF row = n - 1 THEN openUnion(o, virtualTop, virtualBottom) ELSE o

\* The bottom-row test off by one: `if (row == n)`.
openBottom_offByOne(o, row, index) ==
    IF row = n THEN openUnion(o, index, virtualBottom) ELSE o

\* `if (row == n - 1) unionSites(index, virtualBottom);`
openBottom(o, row, index) ==
    IF row = n - 1 THEN openUnion(o, index, virtualBottom) ELSE o

\* The body of open with row and col swapped in the statement that marks the site.
openBlocked_transposedMark(o, row, col) ==
    LET index == getIndex(row, col)
        o1 == [o EXCEPT !.grid[getIndex(col, row)] = TRUE,
                        !.openSitesCount = @ + 1,
                        !.exc = NoException]
        o2 == openTop(o1, row, index)
        o3 == openBottom(o2, row, index)
        o4 == openNeighbor(o3, index, row > 0, row - 1, col)
        o5 == openNeighbor(o4, index, row < n - 1, row + 1, col)
        o6 == openNeighbor(o5, index, col > 0, row, col - 1)
        o7 == openNeighbor(o6, index, col < n - 1, row, col + 1)
    IN  o7

\* The body of open without `openSitesCount++`.
openBlocked_noCount(o, row, col) ==
    LET index == getIndex(row, col)
        o1 == [o EXCEPT !.grid[index] = TRUE, !.exc = NoException]
        o2 == openTop(o1, row, index)
        o3 == openBottom(o2, row, index)
        o4 == openNeighbor(o3, index, row > 0, row - 1, col)
        o5 == openNeighbor(o4, index, row < n - 1, row + 1, col)
        o6 == openNeighbor(o5, index, col > 0, row, col - 1)
        o7 == openNeighbor(o6, index, col < n - 1, row, col + 1)
    IN  o7

\* The body of open joining only the neighbours above and to the left.
openBlocked_upAndLeftOnly(o, row, col) ==
    LET index == getIndex(row, col)
        o1 == [o EXCEPT !.grid[index] = TRUE,
                        !.openSitesCount = @ + 1,
                        !.exc = NoException]
        o2 == openTop(o1, row, index)
        o3 == openBottom(o2, row, index)
        o4 == openNeighbor(o3, index, row > 0, row - 1, col)
        o6 == openNeighbor(o4, index, col > 0, row, col - 1)
    IN  o6

\* The body of open past the early return: mark, count, connect.
openBlocked(o, row, col) ==
    LET index == getIndex(row, col)
        o1 == [o EXCEPT !.grid[index] = TRUE,
                        !.openSitesCount = @ + 1,
                        !.exc = NoException]
        o2 == openTop(o1, row, index)
        o3 == openBottom(o2, row, index)
        o4 == openNeighbor(o3, index, row > 0, row - 1, col)
        o5 == openNeighbor(o4, index, row < n - 1, row + 1, col)
        o6 == openNeighbor(o5, index, col > 0, row, col - 1)
        o7 == openNeighbor(o6, index, col < n - 1, row, col + 1)
    IN  o7

\* open without `if (isOpen(row, col)) return;`.
openOn_noEarlyReturn(o, row, col) ==
    IF validate(row, col) # NoException THEN [o EXCEPT !.exc = validate(row, col)]
    ELSE openBlocked(o, row, col)

\* Percolation::open(row, col) on object o.
openOn(o, row, col) ==
    IF validate(row, col) # NoException THEN [o EXCEPT !.exc = validate(row, col)]
    ELSE IF isOpen(o.grid, row, col).value THEN [o EXCEPT !.exc = NoException]
    ELSE openBlocked(o, row, col)

\* isFull whose early return for a blocked site yields true.
isFullOn_blockedTrue(o, row, col) ==
    IF validate(row, col) # NoException
    THEN [exc |-> validate(row, col), value |-> FALSE, parent |-> o.parent]
    ELSE IF ~isOpen(o.grid, row, col).value
    THEN [exc |-> NoException, value |-> TRUE, parent |-> o.parent]
    ELSE LET c == connected(o.parent, getIndex(row, col), virtualTop)
         IN  [exc |-> NoException, value |-> c.result, parent |-> c.parent]

\* Percolation::isFull(row, col) on object o: exception, value, and the
\* parent array after the find calls.
isFullOn(o, row, col) ==
    IF validate(row, col) # NoException
    THEN [exc |-> validate(row, col), value |-> FALSE, parent |-> o.parent]
    ELSE IF ~isOpen(o.grid, row, col).value
    THEN [exc |-> NoException, value |-> FALSE, parent |-> o.parent]
    ELSE LET c == connected(o.parent, getIndex(row, col), virtualTop)
         IN  [exc |-> NoException, value |-> c.result, parent |-> c.parent]

\* Percolation::percolates() on object o.
percolatesOn(o) == connected(o.parent, virtualTop, virtualBottom)

\* Values the public queries return in the current state.
isFull(row, col) == isFullOn(this, row, col).value

percolates == percolatesOn(this).result

numberOfOpenSites == openSitesCount

-----------------------------------------------------------------------------
\* Actions on the weighted quick-union grid.

open(row, col) ==
    LET o == openOn(this, row, col)
    IN  /\ grid' = o.grid
        /\ parent' = o.parent
        /\ size' = o.size
        /\ openSitesCount' = o.openSitesCount
        /\ raised' = o.exc
        /\ UNCHANGED n

isOpenCall(row, col) ==
    /\ raised' = isOpen(grid, row, col).exc
    /\ UNCHANGED <<n, grid, parent, size, openSitesCount>>

isFullCall(row, col) ==
    LET f == isFullOn(this, row, col)
    IN  /\ parent' = f.parent
        /\ raised' = f.exc
        /\ UNCHANGED <<n, grid, size, openSitesCount>>

numberOfOpenSitesCall ==
    /\ raised' = NoException
    /\ UNCHANGED <<n, grid, parent, size, openSitesCount>>

percolatesCall ==
    /\ parent' = percolatesOn(this).parent
    /\ raised' = NoException
    /\ UNCHANGED <<n, grid, size, openSitesCount>>

-----------------------------------------------------------------------------
\* Quick-find grid (PercolationQuickFind.hpp).

qf_find(ids, x) == ids[x]

\* Quick-find union that relabels x alone instead of every entry with x's id.
qf_unionSites_oneEntry(ids, x, y) ==
    LET idX == qf_find(ids, x)
        idY == qf_find(ids, y)
    IN  IF idX = idY THEN ids ELSE [ids EXCEPT ![x] = idY]

qf_unionSites(ids, x, y) ==
    LET idX == qf_find(ids, x)
        idY == qf_find(ids, y)
    IN  IF idX = idY THEN ids
        ELSE [i \in DOMAIN ids |-> IF ids[i] = idX THEN idY ELSE ids[i]]

qf_connected(ids, x, y) == qf_find(ids, x) = qf_find(ids, y)

\* The object after `PercolationQuickFind perc(k)` for k > 0.
PercolationQuickFind(k) ==
    [grid |-> [i \in 0 .. (k * k - 1) |-> FALSE],
     id |-> [i \in 0 .. (k * k + 1) |-> i],
     openSitesCount |-> 0,
     exc |-> NoException]

qf_this == [grid |-> qf_grid, id |-> id,
            openSitesCount |-> qf_openSitesCount, exc |-> qf_raised]

qf_openUnion(o, x, y) == [o EXCEPT !.id = qf_unionSites(o.id, x, y)]

qf_openNeighbor(o, index, inside, nrow, ncol) ==
    IF o.exc # NoException \/ ~inside THEN o
    ELSE LET q == isOpen(o.grid, nrow, ncol)
         IN  IF q.exc # NoException THEN [o EXCEPT !.exc = q.exc]
             ELSE IF q.value THEN qf_openUnion(o, index, getIndex(nrow, ncol))
             ELSE o

qf_openOn(o, row, col) ==
    IF validate(row, col) # NoException THEN [o EXCEPT !.exc = validate(row, col)]
    ELSE IF isOpen(o.grid, row, col).value THEN [o EXCEPT !.exc = NoException]
    ELSE LET index == getIndex(row, col)
             o1 == [o EXCEPT !.grid[index] = TRUE,
                             !.openSitesCount = @ + 1,
                             !.exc = NoException]
             o2 == IF row = 0 THEN qf_openUnion(o1, index, virtualTop) ELSE o1
             o3 == IF row = n - 1 THEN qf_openUnion(o2, index, virtualBottom) ELSE o2
             o4 == qf_openNeighbor(o3, index, row > 0, row - 1, col)
             o5 == qf_openNeighbor(o4, index, row < n - 1, row + 1, col)
             o6 == qf_openNeighbor(o5, index, col > 0, row, col - 1)
             o7 == qf_openNeighbor(o6, index, col < n - 1, row, col + 1)
         IN  o7

qf_isFullOn(o, row, col) ==
    IF validate(row, col) # NoException
    THEN [exc |-> validate(row, col), value |-> FALSE]
    ELSE IF ~isOpen(o.grid, row, col).value
    THEN [exc |-> NoException, value |-> FALSE]
    ELSE [exc |-> NoException,
          value |-> qf_connected(o.id, getIndex(row, col), virtualTop)]

qf_percolatesOn(o) == qf_connected(o.id, virtualTop, virtualBottom)

qf_isFull(row, col) == qf_isFullOn(qf_this, row, col).value

qf_percolates == qf_percolatesOn(qf_this)

qf_numberOfOpenSites == qf_openSitesCount

\* Actions on the quick-find grid.

qf_open(row, col) ==
    LET o == qf_openOn(qf_this, row, col)
    IN  /\ qf_grid' = o.grid
        /\ id' = o.id
        /\ qf_openSitesCount' = o.openSitesCount
        /\ qf_raised' = o.exc

qf_isOpenCall(row, col) ==
    /\ qf_raised' = isOpen(qf_grid, row, col).exc
    /\ UNCHANGED <<qf_grid, id, qf_openSitesCount>>

qf_isFullCall(row, col) ==
    /\ qf_raised' = qf_isFullOn(qf_this, row, col).exc
    /\ UNCHANGED <<qf_grid, id, qf_openSitesCount>>

qf_queryCall ==
    /\ qf_raised' = NoException
    /\ UNCHANGED <<qf_grid, id, qf_openSitesCount>>

-----------------------------------------------------------------------------
\* sampleMean and sampleStddev before calculateStats has stored them.
Unset == [kind |-> "unset", num |-> 0, den |-> 0]

\* No estimator is being constructed.
NoEstimator ==
    /\ trials = 0
    /\ t = 0
    /\ thresholds = <<>>
    /\ trialRow = -1
    /\ trialCol = -1
    /\ sampleMean = Unset
    /\ sampleStddev = Unset
    /\ stats_raised = NoException
    /\ pc = "idle"

\* Both grids freshly constructed with the same side k.
Constructed(k) ==
    /\ n = k
    /\ grid = Percolation(k).grid
    /\ parent = Percolation(k).parent
    /\ size = Percolation(k).size
    /\ openSitesCount = Percolation(k).openSitesCount
    /\ raised = Percolation(k).exc
    /\ qf_grid = PercolationQuickFind(k).grid
    /\ id = PercolationQuickFind(k).id
    /\ qf_openSitesCount = PercolationQuickFind(k).openSitesCount
    /\ qf_raised = PercolationQuickFind(k).exc
    /\ NoEstimator

\* An open call is explored while it keeps the number of open sites in bound.
WithinOpens(row, col) == openOn(this, row, col).openSitesCount <= MaxOpens

\* Spec: any sequence of calls, valid or not, on one weighted quick-union grid.
Init == \E k \in 1 .. MaxN : Constructed(k)

Next ==
    \/ \E rc \in Calls :
          WithinOpens(rc[1], rc[2]) /\ open(rc[1], rc[2]) /\ UNCHANGED <<qfVars, statVars>>
    \/ \E rc \in Calls : isOpenCall(rc[1], rc[2]) /\ UNCHANGED <<qfVars, statVars>>
    \/ \E rc \in Calls : isFullCall(rc[1], rc[2]) /\ UNCHANGED <<qfVars, statVars>>
    \/ numberOfOpenSitesCall /\ UNCHANGED <<qfVars, statVars>>
    \/ percolatesCall /\ UNCHANGED <<qfVars, statVars>>

Spec == Init /\ [][Next]_vars

\* SpecLockstep: the same calls applied to both grids, one call at a time.
NextLockstep ==
    \/ \E rc \in Calls :
          /\ WithinOpens(rc[1], rc[2])
          /\ open(rc[1], rc[2]) /\ qf_open(rc[1], rc[2])
          /\ UNCHANGED statVars
    \/ \E rc \in Calls :
          isOpenCall(rc[1], rc[2]) /\ qf_isOpenCall(rc[1], rc[2]) /\ UNCHANGED statVars
    \/ \E rc \in Calls :
          isFullCall(rc[1], rc[2]) /\ qf_isFullCall(rc[1], rc[2]) /\ UNCHANGED statVars
    \/ numberOfOpenSitesCall /\ qf_queryCall /\ UNCHANGED statVars
    \/ percolatesCall /\ qf_queryCall /\ UNCHANGED statVars

SpecLockstep == Init /\ [][NextLockstep]_vars

\* SpecForest: the calls that run find or unionSites, on small grids whose
\* union-find forests are the inputs of the claims about find and unionSites.
InitForest == \E k \in 1 .. MaxForestN : Constructed(k)

NextForest ==
    \/ \E rc \in Calls :
          /\ openOn(this, rc[1], rc[2]).openSitesCount <= MaxForestOpens
          /\ open(rc[1], rc[2]) /\ UNCHANGED <<qfVars, statVars>>
    \/ \E rc \in Calls : isFullCall(rc[1], rc[2]) /\ UNCHANGED <<qfVars, statVars>>
    \/ percolatesCall /\ UNCHANGED <<qfVars, statVars>>

SpecForest == InitForest /\ [][NextForest]_vars

\* SpecColumn: on a fresh grid, one column is opened from row 0 downwards,
\* with queries in between.
ColumnPrefix(c) ==
    \A i \in Sites : grid[i] <=> ((i % n) = c /\ (i \div n) < openSitesCount)

InitColumn == \E k \in 1 .. MaxColumnN : Constructed(k)

NextColumn ==
    \/ \E c \in 0 .. (n - 1) :
          /\ ColumnPrefix(c)
          /\ openSitesCount < n
          /\ open(openSitesCount, c)
          /\ UNCHANGED <<qfVars, statVars>>
    \/ \E rc \in Calls : isOpenCall(rc[1], rc[2]) /\ UNCHANGED <<qfVars, statVars>>
    \/ \E rc \in Calls : isFullCall(rc[1], rc[2]) /\ UNCHANGED <<qfVars, statVars>>
    \/ numberOfOpenSitesCall /\ UNCHANGED <<qfVars, statVars>>
    \/ percolatesCall /\ UNCHANGED <<qfVars, statVars>>

SpecColumn == InitColumn /\ [][NextColumn]_vars

-----------------------------------------------------------------------------
\* Threshold estimator (PercolationStat.hpp).  Real numbers are exact
\* fractions <<numerator, denominator>>; rounding of double is not modelled.

\* `Percolation perc(k)`: the exception of the constructor, or the new object.
construct(k) ==
    IF k <= 0 THEN [exc |-> BadGridSize] ELSE Percolation(k)

\* A double: a finite fraction num/den, or one of the non-finite values.
Finite(a, b) == [kind |-> "finite", num |-> a, den |-> b]

NaN == [kind |-> "nan", num |-> 0, den |-> 0]

Infinity == [kind |-> "inf", num |-> 0, den |-> 0]

\* No double at all: the division trapped.
Trapped == [kind |-> "SIGFPE", num |-> 0, den |-> 0]

\* Division by zero is undefined in C++ ([expr.mul]).  What a build can give:
\* the IEEE 754 quiet NaN (or an infinity) when the floating-point exceptions
\* are masked, a SIGFPE when the environment has them unmasked.
ZeroDivideOutcomes(q) == {IF q.num = 0 THEN NaN ELSE Infinity, Trapped}

\* The values `q / d` can take, for a double q and an int d.
divide(q, d) ==
    IF q.kind # "finite" THEN {q}
    ELSE IF d = 0 THEN ZeroDivideOutcomes(q)
    ELSE IF d > 0 THEN {Finite(q.num, q.den * d)}
    ELSE {Finite(0 - q.num, q.den * (0 - d))}

RECURSIVE sumOf(_)
sumOf(ks) == IF ks = <<>> THEN 0 ELSE Head(ks) + sumOf(Tail(ks))

\* `sum` of calculateStats: the thresholds share the denominator n*n.
thresholdSum(ths) == Finite(sumOf([i \in 1 .. Len(ths) |-> ths[i][1]]), n * n)

\* `sumSquaredDiffs` of calculateStats for the mean m.
sumSquaredDiffs(ths, m) ==
    IF m.kind # "finite" THEN m
    ELSE Finite(sumOf([i \in 1 .. Len(ths) |->
                         (ths[i][1] * m.den - m.num * ths[i][2])
                             * (ths[i][1] * m.den - m.num * ths[i][2])]),
                (n * n * m.den) * (n * n * m.den))

\* std::sqrt of a double that is not negative.
sqrt(v) == IF v.kind = "finite" THEN [v EXCEPT !.kind = "sqrt"] ELSE v

\* calculateStats: the pairs (sampleMean, sampleStddev) it can store.
calculateStats(ths, tr) ==
    UNION {{[mean |-> m, stddev |-> sqrt(v)] :
                v \in divide(sumSquaredDiffs(ths, m), tr - 1)} :
           m \in divide(thresholdSum(ths), tr)}

gridVars == <<grid, parent, size, openSitesCount, raised>>

\* Lines 37-51: the argument checks, before any trial.
statsCheckArgs_trialsNegativeOnly ==
    /\ pc = "args"
    /\ IF n <= 0 THEN stats_raised' = BadStatsN /\ pc' = "thrown"
       ELSE IF trials < 0 THEN stats_raised' = BadTrials /\ pc' = "thrown"
       ELSE stats_raised' = NoException /\ pc' = "trial"
    /\ UNCHANGED <<n, gridVars, qfVars, trials, t, thresholds,
                   trialRow, trialCol, sampleMean, sampleStddev>>

statsCheckArgs ==
    /\ pc = "args"
    /\ IF n <= 0 THEN stats_raised' = BadStatsN /\ pc' = "thrown"
       ELSE IF trials <= 0 THEN stats_raised' = BadTrials /\ pc' = "thrown"
       ELSE stats_raised' = NoException /\ pc' = "trial"
    /\ UNCHANGED <<n, gridVars, qfVars, trials, t, thresholds,
                   trialRow, trialCol, sampleMean, sampleStddev>>

\* Lines 54-55: the for test and `Percolation perc(n);`.
statsNextTrial ==
    /\ pc = "trial"
    /\ IF t < trials
       THEN LET o == construct(n)
            IN  IF o.exc # NoException
                THEN /\ stats_raised' = o.exc
                     /\ pc' = "thrown"
                     /\ UNCHANGED gridVars
                ELSE /\ grid' = o.grid
                     /\ parent' = o.parent
                     /\ size' = o.size
                     /\ openSitesCount' = o.openSitesCount
                     /\ raised' = o.exc
                     /\ pc' = "while"
                     /\ UNCHANGED stats_raised
       ELSE pc' = "stats" /\ UNCHANGED <<gridVars, stats_raised>>
    /\ UNCHANGED <<n, qfVars, trials, t, thresholds,
                   trialRow, trialCol, sampleMean, sampleStddev>>

\* The while loop testing one bottom corner: `while (!perc.isFull(n - 1, 0))`.
statsWhile_untilCornerFull ==
    /\ pc = "while"
    /\ parent' = isFullOn(this, n - 1, 0).parent
    /\ raised' = NoException
    /\ pc' = IF isFullOn(this, n - 1, 0).value THEN "record" ELSE "draw"
    /\ UNCHANGED <<n, grid, size, openSitesCount, qfVars, trials, t, thresholds,
                   trialRow, trialCol, sampleMean, sampleStddev, stats_raised>>

\* Line 58: `while (!perc.percolates())`.
statsWhile ==
    /\ pc = "while"
    /\ parent' = percolatesOn(this).parent
    /\ raised' = NoException
    /\ pc' = IF percolatesOn(this).result THEN "record" ELSE "draw"
    /\ UNCHANGED <<n, grid, size, openSitesCount, qfVars, trials, t, thresholds,
                   trialRow, trialCol, sampleMean, sampleStddev, stats_raised>>

\* The do-while without its test: the first draw is taken as it is.
statsDraw_noResample(r, c) ==
    /\ pc = "draw"
    /\ trialRow' = r
    /\ trialCol' = c
    /\ raised' = isOpen(grid, r, c).exc
    /\ pc' = "open"
    /\ UNCHANGED <<n, grid, parent, size, openSitesCount, qfVars, trials, t,
                   thresholds, sampleMean, sampleStddev, stats_raised>>

\* Lines 61-64: one round of the do-while, drawing (r, c).
statsDraw(r, c) ==
    /\ pc = "draw"
    /\ trialRow' = r
    /\ trialCol' = c
    /\ raised' = isOpen(grid, r, c).exc
    /\ pc' = IF isOpen(grid, r, c).value THEN "draw" ELSE "open"
    /\ UNCHANGED <<n, grid, parent, size, openSitesCount, qfVars, trials, t,
                   thresholds, sampleMean, sampleStddev, stats_raised>>

\* Line 66: `perc.open(row, col);`, the end of the while body.
statsOpen ==
    /\ pc = "open"
    /\ \E o \in {openOn(this, trialRow, trialCol)} :
          /\ grid' = o.grid
          /\ parent' = o.parent
          /\ size' = o.size
          /\ openSitesCount' = o.openSitesCount
          /\ raised' = o.exc
    /\ trialRow' = -1
    /\ trialCol' = -1
    /\ pc' = "while"
    /\ UNCHANGED <<n, qfVars, trials, t, thresholds,
                   sampleMean, sampleStddev, stats_raised>>

\* Lines 70-72: the threshold is stored and the for loop steps.
statsRecord ==
    /\ pc = "record"
    /\ thresholds' = Append(thresholds, <<numberOfOpenSites, n * n>>)
    /\ t' = t + 1
    /\ pc' = "trial"
    /\ UNCHANGED <<n, gridVars, qfVars, trials, trialRow, trialCol,
                   sampleMean, sampleStddev, stats_raised>>

\* Line 75: calculateStats().
statsCalculate ==
    /\ pc = "stats"
    /\ \E st \in calculateStats(thresholds, trials) :
          IF st.stddev = Trapped
          THEN pc' = "fault" /\ UNCHANGED <<sampleMean, sampleStddev>>
          ELSE /\ sampleMean' = st.mean
               /\ sampleStddev' = st.stddev
               /\ pc' = "done"
    /\ UNCHANGED <<n, gridVars, qfVars, trials, t, thresholds,
                   trialRow, trialCol, stats_raised>>

\* `PercolationStats stats(nArg, tr)` is entered: nothing has run yet.
statsEnter(nArg, tr) ==
    /\ n = nArg
    /\ trials = tr
    /\ grid = <<>> /\ parent = <<>> /\ size = <<>>
    /\ openSitesCount = 0
    /\ raised = NoException
    /\ qf_grid = <<>> /\ id = <<>>
    /\ qf_openSitesCount = 0
    /\ qf_raised = NoException
    /\ t = 0
    /\ thresholds = <<>>
    /\ trialRow = -1
    /\ trialCol = -1
    /\ sampleMean = Unset
    /\ sampleStddev = Unset
    /\ stats_raised = NoException
    /\ pc = "args"

\* SpecStats: the constructor for arguments from -1 up.
InitStats ==
    \E nArg \in -1 .. MaxStatsN, tr \in -1 .. MaxTrials : statsEnter(nArg, tr)

NextStats ==
    \/ statsCheckArgs
    \/ statsNextTrial
    \/ statsWhile
    \/ \E r \in Rows, c \in Rows : statsDraw(r, c)
    \/ statsOpen
    \/ statsRecord
    \/ statsCalculate

SpecStats == InitStats /\ [][NextStats]_vars

\* A draw that hits a blocked site.
statsDrawBlocked ==
    \E r \in Rows, c \in Rows : statsDraw(r, c) /\ ~grid[getIndex(r, c)]

\* ENABLED <<statsOpen>>_vars is pc = "open", the step always leaving that
\* label; this is WF_vars(statsOpen) written out with it.
statsOpenFair == []<>(pc # "open") \/ []<><<statsOpen>>_vars

\* SpecStatsFair: the constructor with valid arguments keeps running, and the
\* uniform random source does not avoid the blocked sites for ever.
InitStatsFair ==
    \E nArg \in 1 .. MaxFairN, tr \in 1 .. MaxFairTrials : statsEnter(nArg, tr)

SpecStatsFair ==
    /\ InitStatsFair
    /\ [][NextStats]_vars
    /\ WF_vars(statsCheckArgs)
    /\ WF_vars(statsNextTrial)
    /\ WF_vars(statsWhile)
    /\ WF_vars(statsDrawBlocked)
    /\ statsOpenFair
    /\ WF_vars(statsRecord)
    /\ WF_vars(statsCalculate)

-----------------------------------------------------------------------------
\* The unions of one open call, taken apart from their order.

\* The second arguments of the unionSites calls that open(row, col) makes on
\* grid g for a blocked site, in the order of the code.
openUnions(g, row, col) ==
    SelectSeq(<<[taken |-> row = 0, with |-> virtualTop],
                [taken |-> row = n - 1, with |-> virtualBottom],
                [taken |-> row > 0 /\ g[getIndex(row - 1, col)],
                 with |-> getIndex(row - 1, col)],
                [taken |-> row < n - 1 /\ g[getIndex(row + 1, col)],
                 with |-> getIndex(row + 1, col)],
                [taken |-> col > 0 /\ g[getIndex(row, col - 1)],
                 with |-> getIndex(row, col - 1)],
                [taken |-> col < n - 1 /\ g[getIndex(row, col + 1)],
                 with |-> getIndex(row, col + 1)]>>,
              LAMBDA u : u.taken)

\* `unionSites(index, us[1].with); unionSites(index, us[2].with); ...`
RECURSIVE applyUnions(_, _, _)
applyUnions(o, index, us) ==
    IF us = <<>> THEN o
    ELSE applyUnions(openUnion(o, index, Head(us).with), index, Tail(us))

\* The body of open with its unions made in the order of the sequence us.
openBlockedInOrder(o, row, col, us) ==
    applyUnions([o EXCEPT !.grid[getIndex(row, col)] = TRUE,
                          !.openSitesCount = @ + 1,
                          !.exc = NoException],
                getIndex(row, col), us)

\* Every reordering of the sequence us.
Orders(us) ==
    {[i \in 1 .. Len(us) |-> us[p[i]]] :
        p \in {q \in [1 .. Len(us) -> 1 .. Len(us)] :
                  \A i, j \in 1 .. Len(us) : q[i] = q[j] => i = j}}

-----------------------------------------------------------------------------
\* Reference notions the properties are stated against.

siteRow(i) == i \div n

siteCol(i) == i % n

Adjacent(i, j) ==
    \/ /\ siteRow(i) = siteRow(j)
       /\ (siteCol(i) = siteCol(j) + 1 \/ siteCol(j) = siteCol(i) + 1)
    \/ /\ siteCol(i) = siteCol(j)
       /\ (siteRow(i) = siteRow(j) + 1 \/ siteRow(j) = siteRow(i) + 1)

\* Open sites joined to a site of S by a chain of 4-adjacent open sites.
RECURSIVE Flood(_, _)
Flood(g, S) ==
    LET T == S \cup {j \in Sites : g[j] /\ \E i \in S : Adjacent(i, j)}
    IN  IF T = S THEN S ELSE Flood(g, T)

\* Open sites with a chain of open sites to an open site of row 0.
TopReachable(g) == Flood(g, {i \in Sites : siteRow(i) = 0 /\ g[i]})

ChainTopToBottom(g) == \E i \in TopReachable(g) : siteRow(i) = n - 1

OpenSet == {i \in Sites : grid[i]}

\* What a caller can observe of a weighted quick-union object.
Observable(o) ==
    [isOpen |-> [r \in Rows, c \in Rows |-> isOpen(o.grid, r, c).value],
     isFull |-> [r \in Rows, c \in Rows |-> isFullOn(o, r, c).value],
     percolates |-> percolatesOn(o).result,
     openCount |-> o.openSitesCount]

TypeOK ==
    /\ n \in 1 .. MaxN
    /\ grid \in [Sites -> BOOLEAN]
    /\ parent \in [Elements -> Elements]
    /\ size \in [Elements -> 1 .. (n * n + 2)]
    /\ openSitesCount \in 0 .. (n * n)
    /\ raised \in {NoException, OutOfBounds}

-----------------------------------------------------------------------------
\* C1: in every reachable state percolates() is true exactly when a chain of
\* 4-adjacent open sites leads from an open site of row 0 to an open site of
\* row n-1.
C1_PercolatesIffChain == percolates <=> ChainTopToBottom(grid)

\* A percolating 3x3 grid whose spanning chain bends: no column is fully open.
C1_Witness ==
    /\ n = 3
    /\ percolates
    /\ \A c \in Rows : \E r \in Rows : ~grid[getIndex(r, c)]

\* C2: in every reachable state isFull(r,c) is true exactly when (r,c) is open
\* and a chain of 4-adjacent open sites leads from it to an open site of row 0,
\* also after the grid percolates.
C2_FullIffChainToTop ==
    \A r \in Rows, c \in Rows :
        isFull(r, c) <=> getIndex(r, c) \in TopReachable(grid)

\* C3: once percolates() is true it stays true after every later call.
C3_PercolatesMonotonic ==
    [][connected(parent, virtualTop, virtualBottom).result
         => connected(parent', virtualTop, virtualBottom).result]_vars

\* A 2x2 grid with all four sites open: it percolated before the last open.
C3_Witness == n = 2 /\ openSitesCount = 4 /\ percolates

\* C4: open(r,c) on an already open site raises nothing and leaves isOpen and
\* isFull of every site, percolates() and the open count as they were.
C4_OpenIdempotent ==
    \A r \in Rows, c \in Rows :
        grid[getIndex(r, c)] =>
            /\ openOn(this, r, c).exc = NoException
            /\ Observable(openOn(this, r, c)) = Observable(this)

\* A grid with an open full site and an open site that is not full.
C4_Witness ==
    /\ \E r \in Rows, c \in Rows : grid[getIndex(r, c)] /\ isFull(r, c)
    /\ \E r \in Rows, c \in Rows : grid[getIndex(r, c)] /\ ~isFull(r, c)

\* The count equals the number of open sites, and open would raise it by one
\* exactly for a valid blocked site.
CountMatchesGrid ==
    /\ numberOfOpenSites = Cardinality(OpenSet)
    /\ \A row \in Coords, col \in Coords :
          openOn(this, row, col).openSitesCount =
              IF validate(row, col) = NoException /\ ~grid[getIndex(row, col)]
              THEN openSitesCount + 1 ELSE openSitesCount

\* A step opens at most one site and raises the count by the number it opens.
CountFollowsStep ==
    LET opened == {i \in Sites : grid'[i] /\ ~grid[i]}
    IN  /\ Cardinality(opened) <= 1
        /\ openSitesCount' = openSitesCount + Cardinality(opened)

\* C5: the open count equals the number of open sites in every state, and a
\* step raises it by one when it opens a blocked site and leaves it alone
\* otherwise.
C5_OpenCount == [][CountFollowsStep]_vars /\ []CountMatchesGrid

\* An out-of-range call on a 3x3 grid with four open sites left the count alone.
C5_Witness == n = 3 /\ openSitesCount = 4 /\ raised = OutOfBounds

\* C6: isFull(r,c) implies isOpen(r,c) for every site in every reachable state.
C6_FullImpliesOpen ==
    \A r \in Rows, c \in Rows : isFull(r, c) => isOpen(grid, r, c).value

\* A percolating grid that still has blocked sites.
C6_Witness ==
    /\ percolates
    /\ \E r \in Rows, c \in Rows : isFull(r, c)
    /\ \E r \in Rows, c \in Rows : ~isOpen(grid, r, c).value

\* C7: open, isOpen and isFull raise exactly when row or col is outside
\* [0,n); a call that raises leaves openness, connectivity and the open count
\* unchanged; a call with valid coordinates never raises.
C7_RaisesIffOutside ==
    \A row \in Coords, col \in Coords :
        LET outside == ~(row \in Rows /\ col \in Rows)
            o == openOn(this, row, col)
            q == isOpen(grid, row, col)
            f == isFullOn(this, row, col)
        IN  /\ o.exc = (IF outside THEN OutOfBounds ELSE NoException)
            /\ q.exc = (IF outside THEN OutOfBounds ELSE NoException)
            /\ f.exc = (IF outside THEN OutOfBounds ELSE NoException)
            /\ outside =>
                  /\ o.grid = grid /\ o.parent = parent /\ o.size = size
                  /\ o.openSitesCount = openSitesCount
                  /\ f.parent = parent

\* An out-of-range call was made on a grid with open sites.
C7_Witness == raised = OutOfBounds /\ openSitesCount >= 2

\* C8: under lockstep calls the two grids agree on isOpen and isFull of every
\* site, on percolates() and on the open count after every step.
C8_BackendsAgree ==
    /\ \A r \in Rows, c \in Rows :
          /\ isOpen(grid, r, c).value = isOpen(qf_grid, r, c).value
          /\ isFull(r, c) = qf_isFull(r, c)
    /\ percolates = qf_percolates
    /\ numberOfOpenSites = qf_numberOfOpenSites
    /\ raised = qf_raised

\* Both grids percolate on 3x3 with some open site off the spanning cluster.
C8_Witness ==
    /\ n = 3
    /\ percolates /\ qf_percolates
    /\ \E i \in Sites : qf_grid[i] /\ i \notin TopReachable(qf_grid)

\* C9: a freshly constructed grid has open count 0, does not percolate, has
\* no open and no full site, and its two virtual nodes are in different
\* components.
C9_FreshGrid ==
    (/\ grid = Percolation(n).grid
     /\ parent = Percolation(n).parent
     /\ size = Percolation(n).size
     /\ openSitesCount = Percolation(n).openSitesCount)
    => /\ numberOfOpenSites = 0
       /\ ~percolates
       /\ find(parent, virtualTop).root # find(parent, virtualBottom).root
       /\ \A r \in Rows, c \in Rows :
             ~isOpen(grid, r, c).value /\ ~isFull(r, c)

C9_Witness ==
    /\ n = 2
    /\ grid = Percolation(n).grid
    /\ parent = Percolation(n).parent
    /\ size = Percolation(n).size
    /\ openSitesCount = Percolation(n).openSitesCount

\* C10: opening (0,c), (1,c), ..., (n-1,c) in that order on a fresh grid gives
\* percolates() false before the last open and, after it, percolates() true,
\* isFull(n-1,c) true and open count n.
C10_ColumnPercolates ==
    \E c \in Rows :
        /\ ColumnPrefix(c)
        /\ openSitesCount < n => ~percolates
        /\ openSitesCount = n =>
              /\ percolates
              /\ isFull(n - 1, c)
              /\ numberOfOpenSites = n

\* The 3x3 scenario: (0,1), (1,1), (2,1) are open and nothing else.
C10_Witness ==
    /\ n = 3
    /\ openSitesCount = 3
    /\ ColumnPrefix(1)
    /\ percolates

-----------------------------------------------------------------------------
\* Reference notions of the union-find forest.

\* Following parent links from x reaches a self-parented element within k links.
RECURSIVE ReachesRoot(_, _, _)
ReachesRoot(par, x, k) ==
    IF par[x] = x THEN TRUE
    ELSE IF k = 0 THEN FALSE
    ELSE ReachesRoot(par, par[x], k - 1)

Acyclic(par) == \A x \in DOMAIN par : ReachesRoot(par, x, Cardinality(DOMAIN par))

\* The root of x's tree, read without compressing (par is acyclic).
RECURSIVE rootOf(_, _)
rootOf(par, x) == IF par[x] = x THEN x ELSE rootOf(par, par[x])

\* Number of parent links from x to its root.
RECURSIVE depthOf(_, _)
depthOf(par, x) == IF par[x] = x THEN 0 ELSE 1 + depthOf(par, par[x])

\* The elements on the parent path from x to its root, both included.
RECURSIVE pathOf(_, _)
pathOf(par, x) == IF par[x] = x THEN {x} ELSE {x} \cup pathOf(par, par[x])

\* The components of the forest, as a set of sets of elements.
Components(par) ==
    {{y \in DOMAIN par : rootOf(par, y) = rootOf(par, x)} : x \in DOMAIN par}

RECURSIVE Pow2(_)
Pow2(h) == IF h = 0 THEN 1 ELSE 2 * Pow2(h - 1)

\* floor(log2(m)) for m >= 1.
RECURSIVE Log2Floor(_)
Log2Floor(m) == IF m < 2 THEN 0 ELSE 1 + Log2Floor(m \div 2)

-----------------------------------------------------------------------------
\* C14: whenever percolates() is true, some site of the bottom row is full.
C14_PercolatesHasFullBottom ==
    percolates => \E c \in Rows : isFull(n - 1, c)

\* A percolating 3x3 grid.
C14_Witness == n = 3 /\ percolates /\ \E c \in Rows : isFull(n - 1, c)

\* C15: following parent links from any element ends at a self-parented root,
\* and size[r] of every root r is the number of elements whose root is r.
C15_ForestInvariant ==
    /\ Acyclic(parent)
    /\ \A r \in Elements :
          parent[r] = r =>
              size[r] = Cardinality({x \in Elements : rootOf(parent, x) = r})

\* A tree of at least four elements with an element two links from its root.
C15_Witness ==
    \E x \in Elements :
        /\ depthOf(parent, x) >= 2
        /\ size[rootOf(parent, x)] >= 4

\* C17: every element at h links from its root r has 2^h <= size[r], so no
\* find follows more than floor(log2(n^2+2)) links.
C17_HeightBound ==
    \A x \in Elements :
        /\ Pow2(depthOf(parent, x)) <= size[rootOf(parent, x)]
        /\ depthOf(parent, x) <= Log2Floor(n * n + 2)

\* An element two links from its root.
C17_Witness == \E x \in Elements : depthOf(parent, x) = 2

\* C18: union(x,y) on elements of different components puts the root of the
\* strictly smaller component under the root of the larger, y's root under x's
\* root when the sizes are equal, and gives the surviving root the sum of the
\* two sizes; when x and y share a root no component and no size changes.
C18_UnionBySize ==
    \A x \in Elements, y \in Elements :
        LET rx == rootOf(parent, x)
            ry == rootOf(parent, y)
            u == unionSites(parent, size, x, y)
            survivor == IF size[rx] < size[ry] THEN ry ELSE rx
            loser == IF size[rx] < size[ry] THEN rx ELSE ry
        IN  IF rx = ry
            THEN /\ u.size = size
                 /\ \A z \in Elements : rootOf(u.parent, z) = rootOf(parent, z)
            ELSE /\ u.parent[loser] = survivor
                 /\ u.parent[survivor] = survivor
                 /\ u.size[survivor] = size[rx] + size[ry]
                 /\ \A z \in Elements :
                       rootOf(u.parent, z) =
                           IF rootOf(parent, z) = loser THEN survivor
                           ELSE rootOf(parent, z)

\* A forest with two components of different sizes, each of two or more elements.
C18_Witness ==
    \E x \in Elements, y \in Elements :
        /\ parent[x] = x /\ parent[y] = y
        /\ size[x] >= 2 /\ size[y] > size[x]

\* C19: find(x) returns the root of x's tree; afterwards every node that was on
\* the path from x to the root has the root as its parent, every other parent
\* is as before and every element has the root it had.
C19_FindCompressesPath ==
    \A x \in Elements :
        LET f == find(parent, x)
            r == rootOf(parent, x)
            path == pathOf(parent, x)
        IN  /\ f.root = r
            /\ \A z \in Elements :
                  /\ f.parent[z] = IF z \in path THEN r ELSE parent[z]
                  /\ rootOf(f.parent, z) = rootOf(parent, z)

\* An element two links from its root, which find re-parents.
C19_Witness ==
    \E x \in Elements :
        /\ depthOf(parent, x) = 2
        /\ find(parent, x).parent # parent

\* open(r,c) turns site (r,c) open and leaves every other openness bit alone;
\* isFull and percolates leave every element the root it had.
CallsKeepFrame ==
    LET roots == [z \in Elements |-> rootOf(parent, z)]
    IN  /\ \A r \in Rows, c \in Rows :
              LET opened == openOn(this, r, c).grid
                  compressed == isFullOn(this, r, c).parent
              IN  /\ opened = [grid EXCEPT ![getIndex(r, c)] = TRUE]
                  /\ \/ compressed = parent
                     \/ \A z \in Elements : rootOf(compressed, z) = roots[z]
        /\ \A z \in Elements : rootOf(percolatesOn(this).parent, z) = roots[z]

\* No step turns an open site blocked, and a step that opens nothing leaves
\* the open count alone.
OpenIsOneWay ==
    /\ \A i \in Sites : grid[i] => grid'[i]
    /\ grid' = grid => openSitesCount' = openSitesCount

\* C20: open(r,c) changes the openness of site (r,c) only and never turns an
\* open site blocked; isOpen, isFull, percolates and the count query change no
\* openness bit, no open count and no component membership.
C20_Frame == [][OpenIsOneWay]_vars /\ []CallsKeepFrame

\* A grid where isFull compresses a path: a query rewrites parent links only.
C20_Witness ==
    /\ openSitesCount >= 3
    /\ \E r \in Rows, c \in Rows : isFullOn(this, r, c).parent # parent
-----------------------------------------------------------------------------
\* C11: constructing the estimator with n <= 0 or trials <= 0 throws
\* invalid_argument, and so does constructing a grid with n <= 0; the estimator
\* throws before any trial: no grid has been constructed, no threshold stored.
C11_ConstructionErrors ==
    /\ (n <= 0 \/ trials <= 0) => pc \in {"args", "thrown"}
    /\ pc = "thrown" =>
          /\ n <= 0 \/ trials <= 0
          /\ stats_raised = IF n <= 0 THEN BadStatsN ELSE BadTrials
          /\ t = 0
          /\ thresholds = <<>>
          /\ grid = <<>> /\ parent = <<>> /\ size = <<>>
    /\ pc \notin {"args", "thrown"} => stats_raised = NoException
    /\ \A k \in -1 .. MaxStatsN :
          IF k <= 0 THEN construct(k).exc = BadGridSize
          ELSE construct(k).exc = NoException

\* The constructor has thrown for trials <= 0 with a valid n.
C11_Witness == pc = "thrown" /\ n > 0 /\ trials <= 0

\* Every stored threshold k / n^2 has 0 < k <= n^2.
ThresholdsInRange ==
    \A i \in 1 .. Len(thresholds) :
        /\ thresholds[i][2] = n * n
        /\ 0 < thresholds[i][1]
        /\ thresholds[i][1] <= thresholds[i][2]

\* The site about to be opened is a blocked site of the grid.
DrawnSiteBlocked ==
    pc = "open" =>
        /\ validate(trialRow, trialCol) = NoException
        /\ ~grid[getIndex(trialRow, trialCol)]

\* The open call raises the count by one, nothing else in a trial changes it,
\* and the threshold stored is the count of open sites over n^2.
TrialCountsOpens ==
    /\ pc = "open" => openSitesCount' = openSitesCount + 1
    /\ pc \in {"while", "draw", "record"} => openSitesCount' = openSitesCount
    /\ pc = "trial" /\ pc' = "while" => openSitesCount' = 0
    /\ pc = "record" =>
          /\ thresholds' = Append(thresholds, <<Cardinality(OpenSet), n * n>>)
          /\ 0 < Cardinality(OpenSet)
          /\ Cardinality(OpenSet) <= n * n

\* C12: in every trial the site passed to open is blocked, so each round of
\* the while loop raises the count by exactly one; the count at the end of the
\* trial is the number of sites opened, and the threshold is in (0, 1].
C12_RejectionSampling ==
    [][TrialCountsOpens]_vars /\ [](DrawnSiteBlocked /\ ThresholdsInRange)

\* A trial on the 2-by-2 grid has ended with two of the four sites open.
C12_Witness ==
    /\ n = 2
    /\ Len(thresholds) >= 1
    /\ thresholds[1] = <<2, 4>>

\* C13: with trials = 1 the constructor finishes and the statistics are
\* numbers: the division by trials - 1 neither traps nor yields a non-number.
C13_SingleTrialStats ==
    trials = 1 =>
        /\ pc # "fault"
        /\ pc = "done" => sampleMean.kind = "finite" /\ sampleStddev.kind = "sqrt"

\* While a site is being drawn a blocked site exists; a grid with every site
\* open percolates; a trial opens at most n^2 sites and ends percolating.
TrialBounded ==
    /\ pc = "draw" => openSitesCount < n * n
    /\ pc \in {"while", "draw", "open", "record"} =>
          /\ openSitesCount <= n * n
          /\ Cardinality(OpenSet) = n * n => percolatesOn(this).result
    /\ pc = "record" => percolatesOn(this).result

\* C16: every trial ends: under fair sampling the while loop is left, after
\* at most n^2 opens, with the grid percolating, and no site is drawn when no
\* blocked site is left.
C16_TrialTerminates ==
    []TrialBounded /\ ((pc = "while") ~> (pc = "record"))

\* A trial on the 2-by-2 grid has ended after three opens, the most it takes.
C16_Witness ==
    /\ pc = "record"
    /\ n = 2
    /\ openSitesCount = 3

-----------------------------------------------------------------------------
\* Open sites in the union-find component of the virtual top when the open
\* sites are those of g: the sites chained to row 0, and once a chain spans
\* the grid also the sites chained to row n-1.
TopComponent(g) ==
    IF ChainTopToBottom(g)
    THEN TopReachable(g) \cup Flood(g, {i \in Sites : siteRow(i) = n - 1 /\ g[i]})
    ELSE TopReachable(g)

\* What a caller observes, as a function of the set of open sites alone.
ObservableOfSet(g) ==
    [isOpen |-> [r \in Rows, c \in Rows |-> g[getIndex(r, c)]],
     isFull |-> [r \in Rows, c \in Rows |-> getIndex(r, c) \in TopComponent(g)],
     percolates |-> ChainTopToBottom(g),
     openCount |-> Cardinality({i \in Sites : g[i]})]

\* The code's open is the unions of openUnions made in the order written, and
\* making them in any other order gives the same observable state.
UnionOrderIrrelevant ==
    \A r \in Rows, c \in Rows :
        ~grid[getIndex(r, c)] =>
            LET g1 == [grid EXCEPT ![getIndex(r, c)] = TRUE]
                us == openUnions(g1, r, c)
            IN  /\ openBlockedInOrder(this, r, c, us) = openOn(this, r, c)
                /\ \A vs \in Orders(us) :
                      Observable(openBlockedInOrder(this, r, c, vs))
                          = Observable(openOn(this, r, c))

\* C21: isOpen and isFull of every site, percolates() and the open count are
\* determined by the set of sites opened, whatever the order of the open calls
\* and whatever the order of the unions within one open.
C21_OrderIndependence ==
    /\ Observable(this) = ObservableOfSet(grid)
    /\ UnionOrderIrrelevant

\* Three sites are open and opening a further one makes three unions, which
\* have six orders.
C21_Witness ==
    /\ openSitesCount = 3
    /\ \E r \in Rows, c \in Rows :
          /\ ~grid[getIndex(r, c)]
          /\ Len(openUnions([grid EXCEPT ![getIndex(r, c)] = TRUE], r, c)) >= 3
-----------------------------------------------------------------------------
\* C22: when a trial's loop stops the number k of open sites has
\* n <= k <= n^2 - n + 1; so for n >= 2 every stored threshold k/n^2, and the
\* sample mean, is strictly between 0 and 1, and for n = 1 every threshold is 1.
C22_StopCount ==
    /\ pc = "record" =>
          /\ n <= openSitesCount
          /\ openSitesCount <= n * n - n + 1
    /\ \A i \in 1 .. Len(thresholds) :
          IF n = 1 THEN thresholds[i] = <<1, 1>>
          ELSE /\ n <= thresholds[i][1]
               /\ thresholds[i][1] <= n * n - n + 1
               /\ 0 < thresholds[i][1]
               /\ thresholds[i][1] < thresholds[i][2]
    /\ pc = "done" /\ n >= 2 =>
          /\ sampleMean.kind = "finite"
          /\ 0 < sampleMean.num
          /\ sampleMean.num < sampleMean.den

\* Two trials on the 2-by-2 grid stopped at the least and at the greatest
\* count, and the mean has been computed.
C22_Witness ==
    /\ pc = "done"
    /\ n = 2
    /\ thresholds = <<<<2, 4>>, <<3, 4>>>>
    /\ sampleMean = Finite(5, 8)
====
